---- MODULE Spec2Model ----
(***************************************************************************)
(* Model of SegTree-RMQ-LCA.cpp: the templated SegTree (constructor,       *)
(* rangeQuery, update), its RMQ specialisation (func = getMin over         *)
(* pair<int,int>) and the LCA structure built on an Euler tour.            *)
(*                                                                         *)
(* The value type T is pair<int,int>, the type the file instantiates       *)
(* (RMQ<pair<int,int> >).  C++ vectors are 0-indexed; a vector v is the    *)
(* TLA+ sequence whose element v[i] is v[i+1].                             *)
(***************************************************************************)
EXTENDS Integers, Sequences, FiniteSets, TLC

VARIABLES arr, func, tree, updated, pc, call,
          root, neighbors, lca, rmqVec

vars == <<arr, func, tree, updated, pc, call, root, neighbors, lca, rmqVec>>

segVars == <<arr, func, tree, updated>>
lcaVars == <<root, neighbors, lca, rmqVec>>

----------------------------------------------------------------------------
(* Bounds *)

MaxLen == 3        \* longest input vector given to the SegTree constructor
MaxVal == 1        \* second components of the T values range over 0..MaxVal
NumSlots == 4      \* neighbors.size() of the generated trees

----------------------------------------------------------------------------
(* Values and combiners *)

TValues == (0..1) \X (0..MaxVal)

\* What an operation yields once it has run into undefined behaviour.
UB == <<-1, -1>>

\* operator< of std::pair<int,int>: lexicographic.
PairLess(a, b) == a[1] < b[1] \/ (a[1] = b[1] /\ a[2] < b[2])

\* getMin with the comparison turned round, which keeps the larger pair.
getMin_reversed(a, b) == IF PairLess(a, b) THEN b ELSE a

\* RMQ::getMin is std::min(a, b): b if b < a, otherwise a.
getMin(a, b) == IF PairLess(b, a) THEN b ELSE a

\* A caller-supplied associative, non-commutative combiner: composition of
\* the maps x |-> a1*x + a2 over the integers modulo MaxVal + 1, a1 being 0
\* (a constant map) or 1 (a translation).
compose(a, b) == <<a[1] * b[1], (a[1] * b[2] + a[2]) % (MaxVal + 1)>>

\* A caller-supplied associative, non-commutative combiner: keep the left.
first(a, b) == a

Funcs == {"getMin", "compose", "first"}

\* (*func)(a, b)
Apply(f, a, b) ==
    IF a = UB \/ b = UB THEN UB
    ELSE CASE f = "getMin"  -> getMin(a, b)
           [] f = "compose" -> compose(a, b)
           [] f = "first"   -> first(a, b)

\* int division by two, truncating toward zero as C++ does.
Half(x) == IF x >= 0 THEN x \div 2 ELSE -((-x) \div 2)

----------------------------------------------------------------------------
(* struct SegTree *)

\* No SegTree object exists.
NoTree == [left |-> -2, right |-> -2, mid |-> -2, value |-> UB,
           func |-> "none", children |-> <<>>]

\* The constructor ran into undefined behaviour.
UBTree == [left |-> -1, right |-> -1, mid |-> -1, value |-> UB,
           func |-> "none", children |-> <<>>]

RECURSIVE SegTree(_, _, _, _)
SegTree(a, f, left0, right0) ==
    LET left  == IF right0 = -1 THEN 0 ELSE left0
        right == IF right0 = -1 THEN Len(a) - 1 ELSE right0
        mid   == Half(left + right)
    IN  IF left = right
        THEN IF left >= 0 /\ left < Len(a)
             THEN [left |-> left, right |-> right, mid |-> mid,
                   value |-> a[left + 1], func |-> f, children |-> <<>>]
             ELSE UBTree      \* a[left] read outside the vector
        ELSE LET leftChild == SegTree(a, f, left, mid)
             IN  IF leftChild = UBTree THEN UBTree
                 ELSE LET rightChild == SegTree(a, f, mid + 1, right)
                      IN  IF rightChild = UBTree THEN UBTree
                          ELSE [left |-> left, right |-> right, mid |-> mid,
                                value |-> Apply(f, leftChild.value, rightChild.value),
                                func |-> f,
                                children |-> <<leftChild, rightChild>>]

RECURSIVE rangeQuery(_, _, _)

\* rangeQuery combining the two partial answers right before left.
rangeQuery_swapped(t, left, right) ==
    IF left = t.left /\ right = t.right THEN t.value
    ELSE IF Len(t.children) = 0 THEN UB
    ELSE IF right <= t.mid THEN rangeQuery(t.children[1], left, right)
    ELSE IF left > t.mid THEN rangeQuery(t.children[2], left, right)
    ELSE LET leftAns  == rangeQuery(t.children[1], left, t.mid)
             rightAns == rangeQuery(t.children[2], t.mid + 1, right)
         IN  Apply(t.func, rightAns, leftAns)

rangeQuery(t, left, right) ==
    IF left = t.left /\ right = t.right THEN t.value
    ELSE IF Len(t.children) = 0 THEN UB      \* children[0] of a leaf
    ELSE IF right <= t.mid THEN rangeQuery(t.children[1], left, right)
    ELSE IF left > t.mid THEN rangeQuery(t.children[2], left, right)
    ELSE LET leftAns  == rangeQuery(t.children[1], left, t.mid)
             rightAns == rangeQuery(t.children[2], t.mid + 1, right)
         IN  Apply(t.func, leftAns, rightAns)

RECURSIVE update(_, _, _)

\* update descending left only when idx < mid.
update_strictMid(t, idx, newVal) ==
    IF t.left = t.right THEN [t EXCEPT !.value = newVal]
    ELSE LET c == IF idx < t.mid
                  THEN <<update(t.children[1], idx, newVal), t.children[2]>>
                  ELSE <<t.children[1], update(t.children[2], idx, newVal)>>
         IN  [t EXCEPT !.children = c,
                       !.value = Apply(t.func, c[1].value, c[2].value)]

\* update without the recomputation of this->value on the way back.
update_noRecompute(t, idx, newVal) ==
    IF t.left = t.right THEN [t EXCEPT !.value = newVal]
    ELSE LET c == IF idx <= t.mid
                  THEN <<update(t.children[1], idx, newVal), t.children[2]>>
                  ELSE <<t.children[1], update(t.children[2], idx, newVal)>>
         IN  [t EXCEPT !.children = c]

\* update with the second branch taken unconditionally, so that it descends
\* into the right child as well.
update_bothChildren(t, idx, newVal) ==
    IF t.left = t.right THEN [t EXCEPT !.value = newVal]
    ELSE LET c == IF idx <= t.mid
                  THEN <<update(t.children[1], idx, newVal),
                         update(t.children[2], idx, newVal)>>
                  ELSE <<t.children[1], update(t.children[2], idx, newVal)>>
         IN  [t EXCEPT !.children = c,
                       !.value = Apply(t.func, c[1].value, c[2].value)]

update(t, idx, newVal) ==
    IF t.left = t.right THEN [t EXCEPT !.value = newVal]
    ELSE LET c == IF idx <= t.mid
                  THEN <<update(t.children[1], idx, newVal), t.children[2]>>
                  ELSE <<t.children[1], update(t.children[2], idx, newVal)>>
         IN  [t EXCEPT !.children = c,
                       !.value = Apply(t.func, c[1].value, c[2].value)]

----------------------------------------------------------------------------
(* Reference computations, independent of the tree *)

\* combine a[low], a[low+1], ..., a[high] left to right
RECURSIVE LinearScan(_, _, _, _)
LinearScan(f, a, low, high) ==
    IF low = high THEN a[low + 1]
    ELSE Apply(f, LinearScan(f, a, low, high - 1), a[high + 1])

----------------------------------------------------------------------------
(* The SegTree under test: construction, then rangeQuery and update calls *)

NoCall == [op |-> "none", x |-> 0, y |-> 0, v |-> <<0, 0>>, ret |-> <<0, 0>>,
           outcome |-> "none"]

NoLCA == [nodeToRMQIndex |-> <<>>, rmq |-> NoTree]

InputVectors == UNION {[1..n -> TValues] : n \in 0..MaxLen}

\* arr is the vector handed to the constructor and, afterwards, that vector
\* with every in-range update applied to it: what a linear scan would read.
\* updated records that update has been called on the tree.
Init ==
    /\ arr \in InputVectors
    /\ func \in Funcs
    /\ tree = NoTree
    /\ updated = FALSE
    /\ pc = "init"
    /\ call = NoCall
    /\ root = 0
    /\ neighbors = <<>>
    /\ lca = NoLCA
    /\ rmqVec = <<>>

\* SegTree<T> t(arr, func);
Construct ==
    /\ pc = "init"
    /\ LET t == SegTree(arr, func, -1, -1)
       IN  IF t = UBTree
           THEN /\ pc' \in {"segfault", "stack overflow"}
                /\ tree' = NoTree
           ELSE /\ pc' = "built"
                /\ tree' = t
    /\ call' = [NoCall EXCEPT !.op = "construct"]
    /\ UNCHANGED <<arr, func, updated, lcaVars>>

lastIndex == Len(arr) - 1

\* t.rangeQuery(low, high)
RangeQueryCall(low, high) ==
    /\ pc = "built"
    /\ LET r == rangeQuery(tree, low, high)
       IN  IF r # UB
           THEN call' = [NoCall EXCEPT !.op = "rangeQuery", !.x = low, !.y = high,
                                      !.ret = r, !.outcome = "returned"]
           ELSE \E o \in {"garbage", "segfault"} :
                    call' = [NoCall EXCEPT !.op = "rangeQuery", !.x = low, !.y = high,
                                          !.ret = UB, !.outcome = o]
    /\ UNCHANGED <<arr, func, tree, updated, pc, lcaVars>>

\* t.update(idx, newVal)
UpdateCall(idx, newVal) ==
    /\ pc = "built"
    /\ tree' = update(tree, idx, newVal)
    /\ arr' = IF idx \in 0..lastIndex THEN [arr EXCEPT ![idx + 1] = newVal] ELSE arr
    /\ updated' = TRUE
    /\ call' = [NoCall EXCEPT !.op = "update", !.x = idx, !.v = newVal,
                              !.outcome = "returned"]
    /\ UNCHANGED <<func, pc, lcaVars>>

RangeQueryInRange ==
    \E low \in 0..lastIndex, high \in 0..lastIndex :
        low <= high /\ RangeQueryCall(low, high)

UpdateInRange ==
    \E idx \in 0..lastIndex, newVal \in TValues : UpdateCall(idx, newVal)

Next == Construct \/ RangeQueryInRange \/ UpdateInRange

Spec == Init /\ [][Next]_vars

\* The same object driven by a caller that passes indices outside
\* [0, lastIndex].
RangeQueryOutOfRange ==
    \E low \in -1..(lastIndex + 1), high \in -1..(lastIndex + 1) :
        /\ low <= high
        /\ (low < 0 \/ high > lastIndex)
        /\ RangeQueryCall(low, high)

UpdateOutOfRange ==
    \E idx \in {-1, lastIndex + 1}, newVal \in TValues : UpdateCall(idx, newVal)

NextUnchecked == Construct \/ RangeQueryOutOfRange \/ UpdateOutOfRange

SpecUnchecked == Init /\ [][NextUnchecked]_vars

----------------------------------------------------------------------------
(* struct LCA *)

\* dfs(node, currDepth, neighbors, rmqVec); st holds the two things it
\* modifies, rmqVec and this->nodeToRMQIndex.  dfsLoop is its for loop,
\* entered with loop counter i.
RECURSIVE dfs(_, _, _, _), dfsLoop(_, _, _, _, _)
dfs(node, currDepth, nbrs, st) ==
    LET curr == <<currDepth, node>>
        vec  == Append(st.rmqVec, curr)
    IN  dfsLoop(node, currDepth, nbrs,
                [rmqVec |-> vec,
                 nodeToRMQIndex |-> [st.nodeToRMQIndex EXCEPT ![node + 1] = Len(vec) - 1]],
                0)

\* the loop without the push_back of curr after each child.
dfsLoop_noReemit(node, currDepth, nbrs, st, i) ==
    IF i < Len(nbrs[node + 1])
    THEN LET st1 == dfs(nbrs[node + 1][i + 1], currDepth + 1, nbrs, st)
         IN  dfsLoop(node, currDepth, nbrs, st1, i + 1)
    ELSE st

dfsLoop(node, currDepth, nbrs, st, i) ==
    IF i < Len(nbrs[node + 1])
    THEN LET st1 == dfs(nbrs[node + 1][i + 1], currDepth + 1, nbrs, st)
         IN  dfsLoop(node, currDepth, nbrs,
                     [st1 EXCEPT !.rmqVec = Append(@, <<currDepth, node>>)],
                     i + 1)
    ELSE st

\* LCA(root, neighbors): the tour, then RMQ<pair<int,int> >(rmqVec), which
\* is SegTree(rmqVec, getMin).
LCA(r, nbrs) ==
    LET st == dfs(r, 0, nbrs,
                  [rmqVec |-> <<>>, nodeToRMQIndex |-> [n \in 1..Len(nbrs) |-> 0]])
    IN  [nodeToRMQIndex |-> st.nodeToRMQIndex,
         rmq |-> SegTree(st.rmqVec, "getMin", -1, -1)]

\* The vector the constructor's dfs call leaves in its local rmqVec.
Tour(r, nbrs) ==
    dfs(r, 0, nbrs,
        [rmqVec |-> <<>>, nodeToRMQIndex |-> [n \in 1..Len(nbrs) |-> 0]]).rmqVec

\* lcaQuery without the swap of the two indices.
lcaQuery_noSwap(l, node1, node2) ==
    rangeQuery(l.rmq, l.nodeToRMQIndex[node1 + 1], l.nodeToRMQIndex[node2 + 1])

\* lcaQuery(node1, node2) for node ids below nodeToRMQIndex.size(); yields
\* the <depth, node> pair whose second component the method returns.
lcaQuery(l, node1, node2) ==
    LET rmqIndex1 == l.nodeToRMQIndex[node1 + 1]
        rmqIndex2 == l.nodeToRMQIndex[node2 + 1]
    IN  IF rmqIndex1 > rmqIndex2
        THEN rangeQuery(l.rmq, rmqIndex2, rmqIndex1)
        ELSE rangeQuery(l.rmq, rmqIndex1, rmqIndex2)

----------------------------------------------------------------------------
(* Reference computations on the child-adjacency structure, independent   *)
(* of the tour                                                             *)

Slots(nbrs) == 0..(Len(nbrs) - 1)

ChildrenOf(nbrs, n) == {nbrs[n + 1][i] : i \in 1..Len(nbrs[n + 1])}

\* the nodes reachable from r in at most k steps
RECURSIVE Reach(_, _, _)
Reach(nbrs, r, k) ==
    IF k = 0 THEN {r}
    ELSE LET S == Reach(nbrs, r, k - 1)
         IN  S \cup UNION {ChildrenOf(nbrs, n) : n \in S}

TreeNodes(nbrs, r) == Reach(nbrs, r, Len(nbrs))

ParentOf(nbrs, n) == CHOOSE m \in Slots(nbrs) : n \in ChildrenOf(nbrs, m)

\* n, its parent, ..., r
RECURSIVE Ancestors(_, _, _)
Ancestors(nbrs, r, n) ==
    IF n = r THEN {r} ELSE {n} \cup Ancestors(nbrs, r, ParentOf(nbrs, n))

TrueDepth(nbrs, r, n) == Cardinality(Ancestors(nbrs, r, n)) - 1

\* the deepest node that is an ancestor of both a and b
DeepestCommonAncestor(nbrs, r, a, b) ==
    LET common == Ancestors(nbrs, r, a) \cap Ancestors(nbrs, r, b)
    IN  CHOOSE c \in common :
            \A d \in common : TrueDepth(nbrs, r, d) <= TrueDepth(nbrs, r, c)

----------------------------------------------------------------------------
(* The trees handed to the LCA constructor *)

RECURSIVE Ascending(_)
Ascending(S) ==
    IF S = {} THEN <<>>
    ELSE LET m == CHOOSE x \in S : \A y \in S : x <= y
         IN  <<m>> \o Ascending(S \ {m})

RECURSIVE Descending(_)
Descending(S) ==
    IF S = {} THEN <<>>
    ELSE LET m == CHOOSE x \in S : \A y \in S : x >= y
         IN  <<m>> \o Descending(S \ {m})

\* par[n] is the parent of node n - 1, or -1 for the root and for unused slots
RECURSIVE ReachesRoot(_, _, _, _)
ReachesRoot(par, r, n, fuel) ==
    IF n = r THEN TRUE
    ELSE IF fuel = 0 \/ par[n + 1] = -1 THEN FALSE
    ELSE ReachesRoot(par, r, par[n + 1], fuel - 1)

NeighborsOf(par, order) ==
    [n \in 1..Len(par) |->
        LET kids == {c \in 0..(Len(par) - 1) : par[c + 1] = n - 1}
        IN  IF order = "ascending" THEN Ascending(kids) ELSE Descending(kids)]

\* every rooted tree on a subset of the slots 0..NumSlots-1, the children
\* of each node listed in ascending or in descending order
ParentMaps(r) ==
    {p \in [1..NumSlots -> -1..(NumSlots - 1)] :
        /\ p[r + 1] = -1
        /\ \A n \in 0..(NumSlots - 1) :
              p[n + 1] # -1 => ReachesRoot(p, r, n, NumSlots)}

GeneratedTrees ==
    UNION {{[root |-> r, neighbors |-> NeighborsOf(par, order)] :
                order \in {"ascending", "descending"}, par \in ParentMaps(r)} :
           r \in 0..(NumSlots - 1)}

\* the tree of main(): six slots, slot 0 unused, root 1
TestNeighbors == <<<<>>, <<2, 5>>, <<3, 4>>, <<>>, <<>>, <<>>>>

TestTree == [root |-> 1, neighbors |-> TestNeighbors]

InitLCA ==
    /\ \E t \in GeneratedTrees \cup {TestTree} :
          /\ root = t.root
          /\ neighbors = t.neighbors
    /\ lca = NoLCA
    /\ rmqVec = <<>>
    /\ pc = "init"
    /\ call = NoCall
    /\ arr = <<>>
    /\ func = "getMin"
    /\ tree = NoTree
    /\ updated = FALSE

\* LCA l(root, neighbors);
ConstructLCA ==
    /\ pc = "init"
    /\ lca' = LCA(root, neighbors)
    /\ rmqVec' = Tour(root, neighbors)
    /\ pc' = "built"
    /\ call' = [NoCall EXCEPT !.op = "construct"]
    /\ UNCHANGED <<root, neighbors, segVars>>

\* l.lcaQuery(node1, node2) with both ids below neighbors.size()
LcaQueryCall ==
    /\ pc = "built"
    /\ \E node1 \in Slots(neighbors), node2 \in Slots(neighbors) :
          LET r == lcaQuery(lca, node1, node2)
          IN  IF r # UB
              THEN call' = [NoCall EXCEPT !.op = "lcaQuery", !.x = node1, !.y = node2,
                                         !.ret = r, !.outcome = "returned"]
              ELSE \E o \in {"garbage", "segfault"} :
                       call' = [NoCall EXCEPT !.op = "lcaQuery", !.x = node1,
                                             !.y = node2, !.ret = UB, !.outcome = o]
    /\ UNCHANGED <<pc, lcaVars, segVars>>

NextLCA == ConstructLCA \/ LcaQueryCall

SpecLCA == InitLCA /\ [][NextLCA]_vars

----------------------------------------------------------------------------
(* Properties of the SegTree *)

ValidRanges == {lh \in (0..lastIndex) \X (0..lastIndex) : lh[1] <= lh[2]}

\* the combiner gives different results for the two orders somewhere in a
IsOrderSensitive(f, a) ==
    \E i \in 1..Len(a), j \in 1..Len(a) : Apply(f, a[i], a[j]) # Apply(f, a[j], a[i])

\* C1: on a tree that has been built and not updated, rangeQuery(low, high)
\* with 0 <= low <= high <= lastIndex returns, for each of the combiners
\* (two of them non-commutative), the left-to-right combination of
\* arr[low], ..., arr[high] that a linear scan computes.
C1_FoldMatchesLinearScan ==
    (pc = "built" /\ ~updated) =>
        /\ \A lh \in ValidRanges :
              rangeQuery(tree, lh[1], lh[2]) = LinearScan(func, arr, lh[1], lh[2])
        /\ call.op = "rangeQuery" =>
              /\ call.outcome = "returned"
              /\ call.ret = LinearScan(func, arr, call.x, call.y)

\* a query on a fresh tree over a range that is split between both children
\* of the root, under a combiner for which the order of the operands matters
C1_Witness ==
    /\ pc = "built" /\ ~updated
    /\ call.op = "rangeQuery"
    /\ func = "compose"
    /\ Len(arr) >= 3
    /\ call.x > tree.left /\ call.x <= tree.mid /\ call.y > tree.mid
    /\ call.ret # Apply(func, LinearScan(func, arr, tree.mid + 1, call.y),
                              LinearScan(func, arr, call.x, tree.mid))

\* C2: once update calls with in-range indices have been made, the state
\* right after update(i, v) has rangeQuery(i, i) = v, and every
\* rangeQuery(low, high) over a valid range returns the linear-scan
\* combination of the input vector with those updates applied.
C2_UpdateConsistency ==
    (pc = "built" /\ updated) =>
        /\ call.op = "update" => rangeQuery(tree, call.x, call.x) = call.v
        /\ \A lh \in ValidRanges :
              rangeQuery(tree, lh[1], lh[2]) = LinearScan(func, arr, lh[1], lh[2])
        /\ call.op = "rangeQuery" =>
              /\ call.outcome = "returned"
              /\ call.ret = LinearScan(func, arr, call.x, call.y)

\* an update of a leaf in the interior of a three-element tree that changed
\* the value cached at the root
C2_Witness ==
    /\ pc = "built" /\ updated
    /\ call.op = "update"
    /\ Len(arr) >= 3
    /\ call.x = tree.mid
    /\ IsOrderSensitive(func, arr)
    /\ tree.value # tree.children[1].children[1].value
    /\ tree.value # call.v

\* every internal node caches func(left child, right child) over [left, mid]
\* and [mid+1, right] with mid = floor((left+right)/2); every leaf holds a[left]
RECURSIVE NodeInvariant(_, _)
NodeInvariant(t, a) ==
    /\ t.left <= t.right
    /\ 2 * t.mid <= t.left + t.right
    /\ t.left + t.right < 2 * t.mid + 2
    /\ IF t.left = t.right
       THEN /\ t.children = <<>>
            /\ t.value = a[t.left + 1]
       ELSE /\ Len(t.children) = 2
            /\ t.children[1].left = t.left /\ t.children[1].right = t.mid
            /\ t.children[2].left = t.mid + 1 /\ t.children[2].right = t.right
            /\ t.value = Apply(t.func, t.children[1].value, t.children[2].value)
            /\ NodeInvariant(t.children[1], a)
            /\ NodeInvariant(t.children[2], a)

\* C7: after construction and any sequence of in-range update calls, every
\* internal node's value is func of its two children's values, the children
\* cover [left, mid] and [mid+1, right], and every leaf holds the current
\* array value at its index; the root covers the whole array.
C7_CachedValuesConsistent ==
    pc = "built" =>
        /\ tree.left = 0 /\ tree.right = lastIndex
        /\ tree.func = func
        /\ NodeInvariant(tree, arr)

\* after an update that changed the value cached at the root of a tree of
\* height two
C7_Witness ==
    /\ pc = "built" /\ updated
    /\ call.op = "update"
    /\ Len(arr) >= 3
    /\ call.x = 0
    /\ tree.value = call.v
    /\ tree.value # tree.children[2].value
    /\ tree.children[1].value # tree.children[1].children[2].value

\* u is t with no change to any range, mid, func or child count, and with no
\* change to the value of a node whose range does not contain idx
RECURSIVE Frame(_, _, _)
Frame(t, u, idx) ==
    /\ u.left = t.left /\ u.right = t.right /\ u.mid = t.mid /\ u.func = t.func
    /\ Len(u.children) = Len(t.children)
    /\ (idx < t.left \/ idx > t.right) => u = t
    /\ \A k \in 1..Len(t.children) : Frame(t.children[k], u.children[k], idx)

\* C8: a step that is update(idx, newVal) with idx in range leaves the range
\* bounds and child structure of every node as they were, and changes the
\* value of no node whose range does not contain idx.
C8_UpdateFrame ==
    [][call'.op = "update" => Frame(tree, tree', call'.x)]_vars

\* an update has just rewritten the middle leaf and the root, with siblings
\* off the path holding other values
C8_Witness ==
    /\ pc = "built"
    /\ call.op = "update"
    /\ Len(arr) >= 3
    /\ call.x = 1
    /\ tree.children[1].children[1].value # call.v
    /\ tree.children[2].value # call.v
    /\ tree.value # call.v

\* the call named by c passes an index outside [0, lastIndex]
IsOutOfRange(c) ==
    \/ c.op = "update" /\ c.x \notin 0..lastIndex
    \/ c.op = "rangeQuery" /\ (c.x \notin 0..lastIndex \/ c.y \notin 0..lastIndex)

\* C4: a rangeQuery or update step with an index outside [0, lastIndex]
\* fails with RangeError and leaves every node of the tree as it was.
C4_OutOfRangeRejected ==
    [][IsOutOfRange(call') => (call'.outcome = "RangeError" /\ tree' = tree)]_vars

\* C6: constructing from an empty vector ends with a construction error
\* reported and no tree.
C6_EmptyInputRejected ==
    (call.op = "construct" /\ Len(arr) = 0) =>
        (pc = "ConstructionError" /\ tree = NoTree)

----------------------------------------------------------------------------
(* Properties of the LCA *)

Nodes == TreeNodes(neighbors, root)

\* C3: lcaQuery(a, b) on two nodes of the tree returns the deepest node that
\* is an ancestor of both (a node being its own ancestor), and on the tree
\* of main() it returns 2, 1, 2, 4, 1 for (3,4), (3,5), (2,3), (4,4), (5,3).
C3_LcaIsDeepestCommonAncestor ==
    (pc = "built" /\ call.op = "lcaQuery" /\ call.x \in Nodes /\ call.y \in Nodes) =>
        /\ call.outcome = "returned"
        /\ call.ret[2] = DeepestCommonAncestor(neighbors, root, call.x, call.y)
        /\ (root = 1 /\ neighbors = TestNeighbors) =>
              /\ (call.x = 3 /\ call.y = 4) => call.ret[2] = 2
              /\ (call.x = 3 /\ call.y = 5) => call.ret[2] = 1
              /\ (call.x = 2 /\ call.y = 3) => call.ret[2] = 2
              /\ (call.x = 4 /\ call.y = 4) => call.ret[2] = 4
              /\ (call.x = 5 /\ call.y = 3) => call.ret[2] = 1

\* a query whose answer is neither argument nor the root
C3_Witness ==
    /\ pc = "built"
    /\ call.op = "lcaQuery"
    /\ call.x \in Nodes /\ call.y \in Nodes
    /\ call.ret[2] \notin {call.x, call.y, root}
    /\ call.ret[1] = 1

\* C9: for nodes a, b of the tree, lcaQuery(a, b) returns what
\* lcaQuery(b, a) returns.
C9_LcaSymmetric ==
    (pc = "built" /\ call.op = "lcaQuery" /\ call.x \in Nodes /\ call.y \in Nodes) =>
        call.ret[2] = lcaQuery(lca, call.y, call.x)[2]

\* a query whose first argument comes later in the tour than its second, so
\* that the two indices were swapped
C9_Witness ==
    /\ pc = "built"
    /\ call.op = "lcaQuery"
    /\ call.x \in Nodes /\ call.y \in Nodes
    /\ lca.nodeToRMQIndex[call.x + 1] > lca.nodeToRMQIndex[call.y + 1]
    /\ call.ret[2] \notin {call.x, call.y}

\* C10: the vector built by dfs has 2*E + 1 entries, E = n - 1 for the n
\* nodes reachable from root, and each entry <depth, node> is a node of the
\* tree with its distance from the root.
C10_TourLengthAndDepths ==
    pc = "built" =>
        /\ Len(rmqVec) = 2 * (Cardinality(Nodes) - 1) + 1
        /\ \A i \in 1..Len(rmqVec) :
              /\ rmqVec[i][2] \in Nodes
              /\ rmqVec[i][1] = TrueDepth(neighbors, root, rmqVec[i][2])

\* a tour of a tree with a branching node and a node at depth two
C10_Witness ==
    /\ pc = "built"
    /\ Cardinality(Nodes) >= 4
    /\ \E n \in Nodes : Len(neighbors[n + 1]) >= 2
    /\ \E i \in 1..Len(rmqVec) : rmqVec[i][1] = 2

\* C5: lcaQuery with an argument that the tour never visited fails with a
\* LookupError and returns no node.
C5_UnvisitedNodeRejected ==
    (pc = "built" /\ call.op = "lcaQuery" /\ (call.x \notin Nodes \/ call.y \notin Nodes)) =>
        call.outcome = "LookupError"

====
